---- MODULE Spec2Model ----
(***************************************************************************)
(* Model of the Tuple value type of tuples/src/lib.rs: a 4-component       *)
(* (x, y, z, w) tuple of f64 with tolerance-based equality and             *)
(* component-wise arithmetic operators.                                    *)
(*                                                                         *)
(* f64 values are modelled as sign / class / magnitude records.  Finite    *)
(* magnitudes are counted in steps of 1e-6 (Unit steps make 1.0), the      *)
(* finite range ends at MaxFinite, and the IEEE-754 special values         *)
(* (signed zero, signed infinity, NaN) and their arithmetic are kept:      *)
(* overflow gives an infinity, inf - inf, 0 * inf, 0 / 0 and inf / inf     *)
(* give NaN, x / 0 gives an infinity, every comparison with NaN is false.  *)
(***************************************************************************)
EXTENDS Integers, FiniteSets, Sequences, TLC

\* Number of representable steps in 1.0 (resolution 1e-6).
Unit == 1000000

\* Largest finite magnitude, in steps (stands for f64::MAX).
MaxFinite == 200000000

----------------------------------------------------------------------------
(* f64 values *)

Fin(n) == [cls |-> "fin", neg |-> n < 0, mag |-> IF n < 0 THEN -n ELSE n]
NegZero == [cls |-> "fin", neg |-> TRUE, mag |-> 0]
PosInf == [cls |-> "inf", neg |-> FALSE, mag |-> 0]
NegInf == [cls |-> "inf", neg |-> TRUE, mag |-> 0]
NaN == [cls |-> "nan", neg |-> FALSE, mag |-> 0]

Inf(sgn) == IF sgn THEN NegInf ELSE PosInf

F64 ==
  [cls : {"fin"}, neg : BOOLEAN, mag : 0..MaxFinite] \cup {PosInf, NegInf, NaN}

IsNaN(p) == p.cls = "nan"
IsInf(p) == p.cls = "inf"
IsFinite(p) == p.cls = "fin"
IsZero(p) == p.cls = "fin" /\ p.mag = 0

\* Signed number of steps of a finite value.
Steps(p) == IF p.neg THEN -p.mag ELSE p.mag

\* Position of a non-NaN value on the extended number line.
Key(p) ==
  IF IsInf(p) THEN (IF p.neg THEN -(MaxFinite + 1) ELSE MaxFinite + 1)
  ELSE Steps(p)

\* A finite result of magnitude m and sign sgn, or the infinity it overflows to.
Rounded(sgn, m) ==
  IF m > MaxFinite THEN Inf(sgn) ELSE [cls |-> "fin", neg |-> sgn, mag |-> m]

FNeg(p) == IF IsNaN(p) THEN NaN ELSE [p EXCEPT !.neg = ~p.neg]

FAbs(p) == IF IsNaN(p) THEN NaN ELSE [p EXCEPT !.neg = FALSE]

FAdd(p, q) ==
  IF IsNaN(p) \/ IsNaN(q) THEN NaN
  ELSE IF IsInf(p) /\ IsInf(q) THEN (IF p.neg = q.neg THEN p ELSE NaN)
  ELSE IF IsInf(p) THEN p
  ELSE IF IsInf(q) THEN q
  ELSE LET n == Steps(p) + Steps(q)
       IN IF n = 0 THEN (IF p.neg /\ q.neg THEN NegZero ELSE Fin(0))
          ELSE Rounded(n < 0, IF n < 0 THEN -n ELSE n)

FSub(p, q) == FAdd(p, FNeg(q))

\* Round-to-nearest, ties-to-even, of quot + rem/den with 0 <= rem < den.
Nearest(quot, rem, den) ==
  IF 2 * rem > den \/ (2 * rem = den /\ quot % 2 = 1) THEN quot + 1 ELSE quot

\* Magnitude of m1 * m2 in steps (the exact product is m1 * m2 / Unit),
\* rounded to nearest; MaxFinite + 1 when the product leaves the finite range.
MulMag(m1, m2) ==
  LET h1 == m1 \div Unit
      l1 == m1 % Unit
      h2 == m2 \div Unit
      l2 == m2 % Unit
  IN IF h1 > 0 /\ m2 > MaxFinite \div h1 THEN MaxFinite + 1
     ELSE LET p1 == l1 \div 1000
              q1 == l1 % 1000
              p2 == l2 \div 1000
              q2 == l2 % 1000
              low == (p1 * q2 + q1 * p2) * 1000 + q1 * q2
              whole == h1 * m2 + l1 * h2 + p1 * p2 + (low \div Unit)
              m == Nearest(whole, low % Unit, Unit)
          IN IF m > MaxFinite THEN MaxFinite + 1 ELSE m

FMul(p, q) ==
  IF IsNaN(p) \/ IsNaN(q) THEN NaN
  ELSE IF (IsInf(p) /\ IsZero(q)) \/ (IsZero(p) /\ IsInf(q)) THEN NaN
  ELSE IF IsInf(p) \/ IsInf(q) THEN Inf(p.neg # q.neg)
  ELSE Rounded(p.neg # q.neg, MulMag(p.mag, q.mag))

\* Six more decimal digits of a quotient by long division.
RECURSIVE LongDiv(_, _, _, _)
LongDiv(acc, rem, den, digits) ==
  IF digits = 0 THEN Nearest(acc, rem, den)
  ELSE LongDiv(acc * 10 + ((rem * 10) \div den), (rem * 10) % den, den, digits - 1)

\* Magnitude of m1 / m2 in steps (the exact quotient is m1 * Unit / m2),
\* m2 > 0, rounded to nearest; MaxFinite + 1 when it leaves the finite range.
DivMag(m1, m2) ==
  IF m1 \div m2 > MaxFinite \div Unit THEN MaxFinite + 1
  ELSE LET m == LongDiv(m1 \div m2, m1 % m2, m2, 6)
       IN IF m > MaxFinite THEN MaxFinite + 1 ELSE m

FDiv(p, q) ==
  IF IsNaN(p) \/ IsNaN(q) THEN NaN
  ELSE IF IsInf(p) /\ IsInf(q) THEN NaN
  ELSE IF IsInf(p) THEN Inf(p.neg # q.neg)
  ELSE IF IsInf(q) THEN [cls |-> "fin", neg |-> p.neg # q.neg, mag |-> 0]
  ELSE IF IsZero(q) THEN (IF IsZero(p) THEN NaN ELSE Inf(p.neg # q.neg))
  ELSE Rounded(p.neg # q.neg, DivMag(p.mag, q.mag))

FLt(p, q) == ~IsNaN(p) /\ ~IsNaN(q) /\ Key(p) < Key(q)

FEq(p, q) == ~IsNaN(p) /\ ~IsNaN(q) /\ Key(p) = Key(q)

----------------------------------------------------------------------------
(* The Tuple type and its operations *)

EPS == Fin(Unit \div 100000)

Tuple == [x : F64, y : F64, z : F64, w : F64]

\* eq with the x component compared by <= instead of <.
eq_le(self, other) ==
  /\ ~IsNaN(FSub(self.x, other.x))
  /\ Key(FAbs(FSub(self.x, other.x))) <= Key(EPS)
  /\ FLt(FAbs(FSub(self.y, other.y)), EPS)
  /\ FLt(FAbs(FSub(self.z, other.z)), EPS)
  /\ FLt(FAbs(FSub(self.w, other.w)), EPS)

\* eq that forgets the w component.
eq_no_w(self, other) ==
  /\ FLt(FAbs(FSub(self.x, other.x)), EPS)
  /\ FLt(FAbs(FSub(self.y, other.y)), EPS)
  /\ FLt(FAbs(FSub(self.z, other.z)), EPS)

\* eq without .abs(): the signed difference is compared with EPS.
eq_no_abs(self, other) ==
  /\ FLt(FSub(self.x, other.x), EPS)
  /\ FLt(FSub(self.y, other.y), EPS)
  /\ FLt(FSub(self.z, other.z), EPS)
  /\ FLt(FSub(self.w, other.w), EPS)

eq(self, other) ==
  /\ FLt(FAbs(FSub(self.x, other.x)), EPS)
  /\ FLt(FAbs(FSub(self.y, other.y)), EPS)
  /\ FLt(FAbs(FSub(self.z, other.z)), EPS)
  /\ FLt(FAbs(FSub(self.w, other.w)), EPS)

\* add whose x line was written with - instead of +.
add_x_sub(self, rhs) ==
  [x |-> FSub(self.x, rhs.x),
   y |-> FAdd(self.y, rhs.y),
   z |-> FAdd(self.z, rhs.z),
   w |-> FAdd(self.w, rhs.w)]

add(self, rhs) ==
  [x |-> FAdd(self.x, rhs.x),
   y |-> FAdd(self.y, rhs.y),
   z |-> FAdd(self.z, rhs.z),
   w |-> FAdd(self.w, rhs.w)]

\* sub whose w line was copied from add.
sub_w_added(self, rhs) ==
  [x |-> FSub(self.x, rhs.x),
   y |-> FSub(self.y, rhs.y),
   z |-> FSub(self.z, rhs.z),
   w |-> FAdd(self.w, rhs.w)]

sub(self, rhs) ==
  [x |-> FSub(self.x, rhs.x),
   y |-> FSub(self.y, rhs.y),
   z |-> FSub(self.z, rhs.z),
   w |-> FSub(self.w, rhs.w)]

\* neg that leaves w as it is.
neg_w_kept(self) ==
  [x |-> FNeg(self.x),
   y |-> FNeg(self.y),
   z |-> FNeg(self.z),
   w |-> self.w]

neg(self) ==
  [x |-> FNeg(self.x),
   y |-> FNeg(self.y),
   z |-> FNeg(self.z),
   w |-> FNeg(self.w)]

\* impl Mul<f64> for Tuple: tuple * scalar
mul_tuple_f64(self, rhs) ==
  [x |-> FMul(rhs, self.x),
   y |-> FMul(rhs, self.y),
   z |-> FMul(rhs, self.z),
   w |-> FMul(rhs, self.w)]

\* scalar * tuple that leaves w unscaled.
mul_f64_tuple_w_kept(self, rhs) ==
  [x |-> FMul(self, rhs.x),
   y |-> FMul(self, rhs.y),
   z |-> FMul(self, rhs.z),
   w |-> rhs.w]

\* impl Mul<Tuple> for f64: scalar * tuple
mul_f64_tuple(self, rhs) ==
  [x |-> FMul(self, rhs.x),
   y |-> FMul(self, rhs.y),
   z |-> FMul(self, rhs.z),
   w |-> FMul(self, rhs.w)]

\* div that leaves w undivided.
div_w_kept(self, rhs) ==
  [x |-> FDiv(self.x, rhs),
   y |-> FDiv(self.y, rhs),
   z |-> FDiv(self.z, rhs),
   w |-> self.w]

div(self, rhs) ==
  [x |-> FDiv(self.x, rhs),
   y |-> FDiv(self.y, rhs),
   z |-> FDiv(self.z, rhs),
   w |-> FDiv(self.w, rhs)]

new(x, y, z, w) == [x |-> x, y |-> y, z |-> z, w |-> w]

new_point(x, y, z) == [x |-> x, y |-> y, z |-> z, w |-> Fin(Unit)]

\* new_vector whose w was copied from new_point.
new_vector_w_one(x, y, z) == [x |-> x, y |-> y, z |-> z, w |-> Fin(Unit)]

new_vector(x, y, z) == [x |-> x, y |-> y, z |-> z, w |-> Fin(0)]

\* is_point that compares w with 1.0 within the tolerance.
is_point_tolerant(self) == FLt(FAbs(FSub(self.w, Fin(Unit))), EPS)

is_point(self) == FEq(self.w, Fin(Unit))

is_vector(self) == FEq(self.w, Fin(0))

----------------------------------------------------------------------------
(* Inputs *)

\* Component values the operations are exercised on: zero, the two values
\* either side of the tolerance, ordinary values, the ends of the finite
\* range, and the special values.
BelowEps == Fin(EPS.mag - 1)
XValues ==
  {Fin(0), BelowEps, EPS, Fin(3 * Unit), Fin(MaxFinite), Fin(-MaxFinite),
   PosInf, NaN}
YValues == {Fin(0), EPS, Fin(-2 * Unit)}
ZValues == {Fin(0), EPS}
WValues == {Fin(0), NegZero, Fin(Unit), Fin(Unit - 1), EPS, NaN}

Tuples == [x : XValues, y : YValues, z : ZValues, w : WValues]

Scalars ==
  {Fin(0), NegZero, Fin(Unit \div 2), Fin(2 * Unit), Fin(-3 * Unit), PosInf, NaN}

----------------------------------------------------------------------------
(* State machine: one call of one operation on drawn operands *)

VARIABLES
  a,      \* the receiver (self), and the source of x, y, z, w for constructors
  b,      \* the right-hand tuple operand
  c,      \* a third tuple, compared after a == b
  k,      \* the f64 scalar operand
  pc,     \* "start", or the operation that has run
  res,    \* the Tuple an operation returned
  flag,   \* the bool is_point / is_vector returned
  eqAB, eqBA, eqBC, eqAC   \* the bools a == b, b == a, b == c, a == c returned

vars == <<a, b, c, k, pc, res, flag, eqAB, eqBA, eqBC, eqAC>>

Init ==
  /\ a \in Tuples
  /\ b = a
  /\ c = a
  /\ k = Fin(0)
  /\ pc = "start"
  /\ res = a
  /\ flag = FALSE
  /\ eqAB = FALSE /\ eqBA = FALSE /\ eqBC = FALSE /\ eqAC = FALSE

\* Tuple::new(a.x, a.y, a.z, a.w)
New ==
  /\ pc = "start"
  /\ res' = new(a.x, a.y, a.z, a.w)
  /\ pc' = "new"
  /\ UNCHANGED <<a, b, c, k, flag, eqAB, eqBA, eqBC, eqAC>>

\* Tuple::new_point(a.x, a.y, a.z)
NewPoint ==
  /\ pc = "start"
  /\ res' = new_point(a.x, a.y, a.z)
  /\ pc' = "new_point"
  /\ UNCHANGED <<a, b, c, k, flag, eqAB, eqBA, eqBC, eqAC>>

\* Tuple::new_vector(a.x, a.y, a.z)
NewVector ==
  /\ pc = "start"
  /\ res' = new_vector(a.x, a.y, a.z)
  /\ pc' = "new_vector"
  /\ UNCHANGED <<a, b, c, k, flag, eqAB, eqBA, eqBC, eqAC>>

\* a.is_point()
IsPoint ==
  /\ pc = "start"
  /\ flag' = is_point(a)
  /\ pc' = "is_point"
  /\ UNCHANGED <<a, b, c, k, res, eqAB, eqBA, eqBC, eqAC>>

\* a.is_vector()
IsVector ==
  /\ pc = "start"
  /\ flag' = is_vector(a)
  /\ pc' = "is_vector"
  /\ UNCHANGED <<a, b, c, k, res, eqAB, eqBA, eqBC, eqAC>>

\* a == b and b == a
Eq ==
  /\ pc = "start"
  /\ \E q \in Tuples :
       /\ b' = q
       /\ eqAB' = eq(a, q)
       /\ eqBA' = eq(q, a)
  /\ pc' = "eq"
  /\ UNCHANGED <<a, c, k, res, flag, eqBC, eqAC>>

\* After a == b held: b == c and a == c
EqChain ==
  /\ pc = "eq"
  /\ eqAB
  /\ \E r \in Tuples :
       /\ c' = r
       /\ eqBC' = eq(b, r)
       /\ eqAC' = eq(a, r)
  /\ pc' = "eq_chain"
  /\ UNCHANGED <<a, b, k, res, flag, eqAB, eqBA>>

\* a + b
Add ==
  /\ pc = "start"
  /\ \E q \in Tuples :
       /\ b' = q
       /\ res' = add(a, q)
  /\ pc' = "add"
  /\ UNCHANGED <<a, c, k, flag, eqAB, eqBA, eqBC, eqAC>>

\* a - b
Sub ==
  /\ pc = "start"
  /\ \E q \in Tuples :
       /\ b' = q
       /\ res' = sub(a, q)
  /\ pc' = "sub"
  /\ UNCHANGED <<a, c, k, flag, eqAB, eqBA, eqBC, eqAC>>

\* -a
Neg ==
  /\ pc = "start"
  /\ res' = neg(a)
  /\ pc' = "neg"
  /\ UNCHANGED <<a, b, c, k, flag, eqAB, eqBA, eqBC, eqAC>>

\* a * k
MulTupleF64 ==
  /\ pc = "start"
  /\ \E s \in Scalars :
       /\ k' = s
       /\ res' = mul_tuple_f64(a, s)
  /\ pc' = "mul_tuple_f64"
  /\ UNCHANGED <<a, b, c, flag, eqAB, eqBA, eqBC, eqAC>>

\* k * a
MulF64Tuple ==
  /\ pc = "start"
  /\ \E s \in Scalars :
       /\ k' = s
       /\ res' = mul_f64_tuple(s, a)
  /\ pc' = "mul_f64_tuple"
  /\ UNCHANGED <<a, b, c, flag, eqAB, eqBA, eqBC, eqAC>>

\* a / k
Div ==
  /\ pc = "start"
  /\ \E s \in Scalars :
       /\ k' = s
       /\ res' = div(a, s)
  /\ pc' = "div"
  /\ UNCHANGED <<a, b, c, flag, eqAB, eqBA, eqBC, eqAC>>

Next ==
  \/ New \/ NewPoint \/ NewVector
  \/ IsPoint \/ IsVector
  \/ Eq \/ EqChain
  \/ Add \/ Sub \/ Neg
  \/ MulTupleF64 \/ MulF64Tuple \/ Div

Spec == Init /\ [][Next]_vars

TypeOK ==
  /\ a \in Tuple /\ b \in Tuple /\ c \in Tuple /\ res \in Tuple
  /\ k \in F64
  /\ flag \in BOOLEAN
  /\ {eqAB, eqBA, eqBC, eqAC} \subseteq BOOLEAN

----------------------------------------------------------------------------
(* Properties *)

Components == {"x", "y", "z", "w"}

\* Both values are numbers and they differ by strictly less than 1e-5.
Close(p, q) ==
  /\ IsFinite(p) /\ IsFinite(q)
  /\ Steps(p) - Steps(q) < EPS.mag
  /\ Steps(q) - Steps(p) < EPS.mag

\* Both values are numbers and they differ by 1e-5 or more.
Apart(p, q) ==
  /\ IsFinite(p) /\ IsFinite(q)
  /\ (Steps(p) - Steps(q) >= EPS.mag \/ Steps(q) - Steps(p) >= EPS.mag)

FiniteXYZ(t) == IsFinite(t.x) /\ IsFinite(t.y) /\ IsFinite(t.z)

FiniteTuple(t) == \A f \in Components : IsFinite(t[f])

One == Fin(Unit)
NearOne == Fin(Unit - 1)     \* 0.999999

\* C1: a == b holds exactly when the four component differences are each
\* strictly below 1e-5; a difference of 1e-5 or more in a single component,
\* the other three being identical, makes the tuples unequal.
C1_EqIffAllWithinEps ==
  pc = "eq" =>
    /\ eqAB = (\A f \in Components : Close(a[f], b[f]))
    /\ \A f \in Components :
         (Apart(a[f], b[f]) /\ \A g \in Components \ {f} : a[g] = b[g]) => ~eqAB

\* C1 witness: x differs by exactly 1e-5, y, z, w are identical numbers, and
\* the comparison returned false.
C1_Witness ==
  /\ pc = "eq"
  /\ a.x = Fin(0) /\ b.x = EPS
  /\ a.y = b.y /\ a.z = b.z /\ a.w = b.w
  /\ FiniteTuple(a)
  /\ ~eqAB

\* C2 as stated: a tuple with w = 0.999999 (x, y, z ordinary numbers)
\* compares equal to new_vector(x, y, z) while is_vector() on it is false.
C2_EqualToVector ==
  (/\ pc = "eq"
   /\ a.w = NearOne
   /\ FiniteXYZ(a)
   /\ b = new_vector(a.x, a.y, a.z))
  => (eqAB /\ ~is_vector(a))

\* C2 amended: a tuple with w = 0.999999 and finite x, y, z compares equal to
\* the point new_point(x, y, z) and unequal to the vector new_vector(x, y, z),
\* while both is_point() and is_vector() on it are false.
C2_EqualToPoint ==
  (pc = "eq" /\ a.w = NearOne /\ FiniteXYZ(a)) =>
    /\ b = new_point(a.x, a.y, a.z) => eqAB
    /\ b = new_vector(a.x, a.y, a.z) => ~eqAB
    /\ ~is_point(a)
    /\ ~is_vector(a)

\* C2 witness: the tuple with w = 0.999999 was compared with the point of the
\* same x, y, z and found equal.
C2_Witness ==
  /\ pc = "eq"
  /\ a.w = NearOne
  /\ FiniteXYZ(a)
  /\ b = new_point(a.x, a.y, a.z)
  /\ eqAB
  /\ ~is_point(a)

\* C3: is_point() is true exactly when w is 1.0 and is_vector() exactly when
\* w is zero, without tolerance; new_point gives a point that is no vector,
\* new_vector a vector that is no point, and no tuple is both.
C3_ExactPredicates ==
  /\ pc = "is_point" => flag = (a.w = One)
  /\ pc = "is_vector" => flag = (IsFinite(a.w) /\ a.w.mag = 0)
  /\ pc = "new_point" => (is_point(res) /\ ~is_vector(res))
  /\ pc = "new_vector" => (is_vector(res) /\ ~is_point(res))
  /\ \A t \in {a, b, c, res} : ~(is_point(t) /\ is_vector(t))

\* C3 witness: is_point() was asked of a tuple with w = 0.999999, within the
\* tolerance of 1.0, and returned false.
C3_Witness ==
  /\ pc = "is_point"
  /\ a.w = NearOne
  /\ ~flag

IsDifference(r, p, q) ==
  (IsFinite(p) /\ IsFinite(q) /\ Steps(p) - Steps(q) \in -MaxFinite..MaxFinite)
    => (IsFinite(r) /\ Steps(r) = Steps(p) - Steps(q))

\* The exact sum of two finite values, when it stays in the finite range.
IsSum(r, p, q) ==
  (IsFinite(p) /\ IsFinite(q) /\ Steps(p) + Steps(q) \in -MaxFinite..MaxFinite)
    => (IsFinite(r) /\ Steps(r) = Steps(p) + Steps(q))

\* The x, y, z differences of a and b.
Dx == FSub(a.x, b.x)
Dy == FSub(a.y, b.y)
Dz == FSub(a.z, b.z)

\* C5 as stated, read for operands whose components are all finite numbers:
\* subtraction is component-wise; for all points p, q and vectors u, v,
\* p - q is a vector equal to new_vector of the differences, p - u is a point
\* equal to new_point of the differences, u - v is a vector.
C5_SubKinds ==
  (pc = "sub" /\ FiniteTuple(a) /\ FiniteTuple(b)) =>
    /\ \A f \in Components : IsDifference(res[f], a[f], b[f])
    /\ (is_point(a) /\ is_point(b)) =>
         (is_vector(res) /\ eq(res, new_vector(Dx, Dy, Dz)))
    /\ (is_point(a) /\ is_vector(b)) =>
         (is_point(res) /\ eq(res, new_point(Dx, Dy, Dz)))
    /\ (is_vector(a) /\ is_vector(b)) => is_vector(res)

\* C5 amended: subtraction is component-wise; p - q is a vector with the
\* components of new_vector of the differences, p - u is a point with the
\* components of new_point of the differences, u - v is a vector; the ==
\* comparisons with new_vector / new_point hold when the three differences
\* are finite.
C5_SubKindsOnFinite ==
  pc = "sub" =>
    /\ \A f \in Components : IsDifference(res[f], a[f], b[f])
    /\ (is_point(a) /\ is_point(b)) =>
         /\ is_vector(res)
         /\ res = new_vector(Dx, Dy, Dz)
         /\ FiniteXYZ(res) => eq(res, new_vector(Dx, Dy, Dz))
    /\ (is_point(a) /\ is_vector(b)) =>
         /\ is_point(res)
         /\ res = new_point(Dx, Dy, Dz)
         /\ FiniteXYZ(res) => eq(res, new_point(Dx, Dy, Dz))
    /\ (is_vector(a) /\ is_vector(b)) => is_vector(res)

\* C5 witness: two points with different x were subtracted and the result is
\* a vector equal to new_vector of the differences.
C5_Witness ==
  /\ pc = "sub"
  /\ is_point(a) /\ is_point(b)
  /\ a.x = Fin(3 * Unit) /\ b.x = EPS
  /\ is_vector(res)
  /\ eq(res, new_vector(Dx, Dy, Dz))

\* C6 as stated, read for operands whose components are all finite numbers:
\* addition is component-wise and, for all tuples a and b, a + b == b + a;
\* point + vector is a point, vector + vector a vector, point + point has
\* w = 2.0 and is neither.
C6_AddCommutes ==
  (pc = "add" /\ FiniteTuple(a) /\ FiniteTuple(b)) =>
    /\ \A f \in Components : IsSum(res[f], a[f], b[f])
    /\ eq(res, add(b, a))
    /\ (is_point(a) /\ is_vector(b)) => is_point(res)
    /\ (is_vector(a) /\ is_vector(b)) => is_vector(res)
    /\ (is_point(a) /\ is_point(b)) =>
         (res.w = Fin(2 * Unit) /\ ~is_point(res) /\ ~is_vector(res))

\* C6 amended: addition is component-wise; a + b and b + a have identical
\* components for all tuples, and a + b == b + a whenever the four sums are
\* finite; point + vector is a point, vector + vector a vector, point + point
\* has w = 2.0 and is neither.
C6_AddCommutesOnFinite ==
  pc = "add" =>
    /\ \A f \in Components : IsSum(res[f], a[f], b[f])
    /\ res = add(b, a)
    /\ FiniteTuple(res) => eq(res, add(b, a))
    /\ (is_point(a) /\ is_vector(b)) => is_point(res)
    /\ (is_vector(a) /\ is_vector(b)) => is_vector(res)
    /\ (is_point(a) /\ is_point(b)) =>
         (res.w = Fin(2 * Unit) /\ ~is_point(res) /\ ~is_vector(res))

\* C6 witness: two points with different x were added; the sum has w = 2.0
\* and equals the sum taken in the other order.
C6_Witness ==
  /\ pc = "add"
  /\ is_point(a) /\ is_point(b)
  /\ a.x = Fin(3 * Unit) /\ b.x = BelowEps
  /\ res.w = Fin(2 * Unit)
  /\ eq(res, add(b, a))

\* The product of a finite value by a whole-number scalar, when it stays in
\* the finite range, and the infinity it overflows to when it does not.
IsScaled(r, s, p) ==
  (IsFinite(s) /\ IsFinite(p) /\ s.mag % Unit = 0) =>
    LET n == Steps(s) \div Unit
        m == IF n * Steps(p) < 0 THEN -(n * Steps(p)) ELSE n * Steps(p)
    IN IF m > MaxFinite THEN IsInf(r) /\ r.neg = (s.neg # p.neg)
       ELSE IsFinite(r) /\ r.mag = m /\ (m # 0 => r.neg = (s.neg # p.neg))

\* C7 as stated, read for a finite scalar and a tuple of finite components:
\* s * t == t * s across the two implementations, and both equal the tuple
\* whose four components are each scaled by s.
C7_ScalarMulCommutes ==
  (pc \in {"mul_tuple_f64", "mul_f64_tuple"} /\ IsFinite(k) /\ FiniteTuple(a)) =>
    /\ \A f \in Components : IsScaled(res[f], k, a[f])
    /\ eq(mul_f64_tuple(k, a), mul_tuple_f64(a, k))
    /\ eq(res, new(FMul(k, a.x), FMul(k, a.y), FMul(k, a.z), FMul(k, a.w)))

\* C7 amended: for every tuple t and scalar s, s * t and t * s have identical
\* components, each the component of t scaled by s (w included); s * t == t * s
\* holds whenever the four products are finite.
C7_ScalarMulCommutesOnFinite ==
  pc \in {"mul_tuple_f64", "mul_f64_tuple"} =>
    /\ \A f \in Components : IsScaled(res[f], k, a[f])
    /\ mul_f64_tuple(k, a) = mul_tuple_f64(a, k)
    /\ res = mul_tuple_f64(a, k)
    /\ res = new(FMul(k, a.x), FMul(k, a.y), FMul(k, a.z), FMul(k, a.w))
    /\ FiniteTuple(res) =>
         /\ eq(mul_f64_tuple(k, a), mul_tuple_f64(a, k))
         /\ eq(res, new(FMul(k, a.x), FMul(k, a.y), FMul(k, a.z), FMul(k, a.w)))

\* C7 witness: the scalar -3.0 multiplied, from the left, a point with x = 3.0;
\* the result has x = -9.0 and w = -3.0 and equals the product taken from the
\* right.
C7_Witness ==
  /\ pc = "mul_f64_tuple"
  /\ k = Fin(-3 * Unit)
  /\ a.x = Fin(3 * Unit) /\ a.w = One
  /\ res.x = Fin(-9 * Unit) /\ res.w = Fin(-3 * Unit)
  /\ eq(res, mul_tuple_f64(a, k))

\* The value with the sign flipped (NaN stays NaN).
IsNegated(r, p) ==
  IF IsNaN(p) THEN IsNaN(r)
  ELSE r.cls = p.cls /\ r.mag = p.mag /\ r.neg = ~p.neg

ZeroVector == new_vector(Fin(0), Fin(0), Fin(0))

\* C8 as stated: negation negates all four components, and for every vector
\* v, new_vector(0,0,0) - v == -v, the result being a vector again.
C8_ZeroMinusIsNeg ==
  /\ pc = "neg" => (\A f \in Components : IsNegated(res[f], a[f]))
  /\ (pc = "sub" /\ a = ZeroVector /\ is_vector(b)) =>
       (eq(res, neg(b)) /\ is_vector(res) /\ is_vector(neg(b)))

\* C8 amended: negation negates all four components; for every vector v both
\* new_vector(0,0,0) - v and -v are vectors, and new_vector(0,0,0) - v == -v
\* holds when x, y and z of v are finite.
C8_ZeroMinusIsNegOnFinite ==
  /\ pc = "neg" => (\A f \in Components : IsNegated(res[f], a[f]))
  /\ (pc = "sub" /\ a = ZeroVector /\ is_vector(b)) =>
       /\ is_vector(res)
       /\ is_vector(neg(b))
       /\ FiniteXYZ(b) => eq(res, neg(b))

\* C8 witness: a vector with x = 3.0 and y = -2.0 was subtracted from the zero
\* vector; the result is a vector and equals its negation.
C8_Witness ==
  /\ pc = "sub"
  /\ a = ZeroVector
  /\ is_vector(b) /\ b.x = Fin(3 * Unit) /\ b.y = Fin(-2 * Unit)
  /\ res.x = Fin(-3 * Unit) /\ res.y = Fin(2 * Unit)
  /\ is_vector(res)
  /\ eq(res, neg(b))

\* r is p / s as IEEE-754 defines it: NaN operands give NaN, a zero divisor
\* gives NaN for a zero dividend and a signed infinity otherwise, a
\* whole-number divisor gives the nearest value to the exact quotient, and a
\* divisor 1/m gives the m-fold value or the infinity it overflows to.
IsQuotient(r, p, s) ==
  IF IsNaN(p) \/ IsNaN(s) THEN IsNaN(r)
  ELSE IF IsZero(s) THEN
    (IF IsZero(p) THEN IsNaN(r) ELSE IsInf(r) /\ r.neg = (p.neg # s.neg))
  ELSE IF IsInf(p) \/ IsInf(s) THEN
    (IF IsInf(p) /\ IsInf(s) THEN IsNaN(r)
     ELSE IF IsInf(p) THEN IsInf(r) /\ r.neg = (p.neg # s.neg)
     ELSE IsZero(r) /\ r.neg = (p.neg # s.neg))
  ELSE IF s.mag % Unit = 0 THEN
    LET n == s.mag \div Unit
        d == n * r.mag - p.mag
    IN /\ IsFinite(r)
       /\ r.neg = (p.neg # s.neg)
       /\ 2 * d <= n /\ -n <= 2 * d
  ELSE IF Unit % s.mag = 0 THEN
    LET m == Unit \div s.mag
    IN IF m * p.mag > MaxFinite THEN IsInf(r) /\ r.neg = (p.neg # s.neg)
       ELSE IsFinite(r) /\ r.mag = m * p.mag /\ r.neg = (p.neg # s.neg)
  ELSE TRUE

\* C9: every operation returns a value (a bool, or a Tuple of four f64
\* values) for every input; t / s divides each of the four components by s,
\* and t / 0.0 is a Tuple whose components are infinities or NaN.
C9_DivTotal ==
  /\ res \in Tuple
  /\ flag \in BOOLEAN /\ eqAB \in BOOLEAN /\ eqBA \in BOOLEAN
  /\ pc = "div" =>
       /\ \A f \in Components : IsQuotient(res[f], a[f], k)
       /\ IsZero(k) => (\A f \in Components : IsInf(res[f]) \/ IsNaN(res[f]))

\* C9 witness: a tuple with x = 3.0, y = 0.0 and w = 1.0 was divided by 0.0;
\* the result is a Tuple with x = +infinity, y = NaN and w = +infinity.
C9_Witness ==
  /\ pc = "div"
  /\ k = Fin(0)
  /\ a.x = Fin(3 * Unit) /\ a.y = Fin(0) /\ a.w = One
  /\ res.x = PosInf /\ IsNaN(res.y) /\ res.w = PosInf

\* C10 as stated: == is symmetric, and reflexive for every tuple.
C10_SymmetricReflexive ==
  pc = "eq" =>
    /\ eqAB = eqBA
    /\ b = a => eqAB

\* C10 amended: == is symmetric; a == a holds for every tuple whose four
\* components are finite and fails for every tuple with a NaN or infinite
\* component; == is not transitive (the witness is a chain a == b, b == c
\* with a != c).
C10_SymmetricReflexiveOnFinite ==
  /\ pc = "eq" =>
       /\ eqAB = eqBA
       /\ b = a => (eqAB = FiniteTuple(a))
  /\ pc = "eq_chain" => (c = a => eqAC = FiniteTuple(a))

\* C10 witness: a == b and b == c were found true and a == c false.
C10_Witness ==
  /\ pc = "eq_chain"
  /\ eqAB /\ eqBC /\ ~eqAC
  /\ FiniteTuple(a) /\ FiniteTuple(b) /\ FiniteTuple(c)

====
